---- MODULE Spec2Model ----
(***************************************************************************)
(* Streaming archive extraction of uv-extract (crates/uv-extract/src/      *)
(* stream.rs): the entry-name sanitizer, the zip forward pass and its      *)
(* central-directory permission pass, the tar loop with its per-entry      *)
(* executable-bit fix, and the dispatcher.                                 *)
(*                                                                         *)
(* An entry name is the sequence of the segments between its separators:   *)
(* "a/../b" is <<"a", "..", "b">>, "a/" is <<"a", "">>, "/b" is            *)
(* <<"", "b">> and the empty name is <<"">>.  The segment "nul" stands for *)
(* a segment holding a NUL byte and "c:" for a drive-style segment.        *)
(* A location of the filesystem is the sequence of directory names from    *)
(* the root; a path handed to a filesystem call is a sequence of names and *)
(* ".." that the filesystem resolves while walking it.                     *)
(***************************************************************************)
EXTENDS Integers, Sequences, FiniteSets, TLC

VARIABLES platform, ext, extractor, pc, entries, cd, fs, directories, memo,
          warnings, error, trace, sname, sres, procs, writer, size, pointer_width

vars == <<platform, ext, extractor, pc, entries, cd, fs, directories, memo,
          warnings, error, trace, sname, sres, procs, writer, size, pointer_width>>

(***************************************************************************)
(* Bounds of the model.                                                    *)
(***************************************************************************)
\* Entries one archive holds at most.
MaxEntries == 2
\* Segments of an entry name handed to the sanitizer alone.
MaxSegs == 4

(***************************************************************************)
(* Options, permission bits.                                               *)
(***************************************************************************)
None == [some |-> FALSE]
Some(v) == [some |-> TRUE, val |-> v]

RECURSIVE BitAnd(_, _)
BitAnd(a, b) ==
    IF a = 0 \/ b = 0 THEN 0
    ELSE (IF a % 2 = 1 /\ b % 2 = 1 THEN 1 ELSE 0) + 2 * BitAnd(a \div 2, b \div 2)

RECURSIVE BitOr(_, _)
BitOr(a, b) ==
    IF a = 0 THEN b
    ELSE IF b = 0 THEN a
    ELSE (IF a % 2 = 1 \/ b % 2 = 1 THEN 1 ELSE 0) + 2 * BitOr(a \div 2, b \div 2)

\* 0o111
ExecMask == 64 + 8 + 1
\* 0o644, 0o755, 0o754
Mode644 == 6 * 64 + 4 * 8 + 4
Mode755 == 7 * 64 + 5 * 8 + 5
Mode754 == 7 * 64 + 5 * 8 + 4

(***************************************************************************)
(* std::path::Path::components over an entry name.                         *)
(***************************************************************************)
Comp(k, s) == [k |-> k, s |-> s]

HasNul(name) == \E i \in 1..Len(name) : name[i] = "nul"

\* The name starts with a separator.
HasRoot(name) == Len(name) >= 2 /\ name[1] = ""

\* The name starts with a drive prefix (Windows only).
HasPrefix(plat, name) == plat = "windows" /\ name[1] = "c:"

RECURSIVE ComponentsFrom(_, _, _)
ComponentsFrom(plat, name, i) ==
    IF i > Len(name) THEN <<>>
    ELSE LET s == name[i]
             rest == ComponentsFrom(plat, name, i + 1)
         IN  IF s = "" THEN
                 IF i = 1 /\ HasRoot(name) THEN <<Comp("RootDir", "")>> \o rest
                 ELSE rest
             ELSE IF s = "." THEN
                 IF i = 1 THEN <<Comp("CurDir", ".")>> \o rest ELSE rest
             ELSE IF s = ".." THEN <<Comp("ParentDir", "..")>> \o rest
             ELSE IF i = 1 /\ HasPrefix(plat, name) THEN <<Comp("Prefix", s)>> \o rest
             ELSE <<Comp("Normal", s)>> \o rest

Components(plat, name) == ComponentsFrom(plat, name, 1)

(***************************************************************************)
(* enclosed_name: Some(the name as a path) or None.                        *)
(***************************************************************************)
\* depth.checked_sub(1): None below zero.
CheckedSubSat(depth) == Some(IF depth = 0 THEN 0 ELSE depth - 1)
CheckedSub(depth) == IF depth = 0 THEN None ELSE Some(depth - 1)

\* The loop over the components from the i-th on, entered with `depth`:
\* TRUE when it runs to its end, FALSE when it returns None.
RECURSIVE DepthLoop(_, _, _)
DepthLoop(comps, i, depth) ==
    IF i > Len(comps) THEN TRUE
    ELSE LET c == comps[i]
         IN  CASE c.k \in {"Prefix", "RootDir"} -> FALSE
               [] c.k = "ParentDir" ->
                    LET d == CheckedSub(depth)
                    IN  IF d.some THEN DepthLoop(comps, i + 1, d.val) ELSE FALSE
               [] c.k = "Normal" -> DepthLoop(comps, i + 1, depth + 1)
               [] OTHER -> DepthLoop(comps, i + 1, depth)

EnclosedName(plat, name) ==
    IF HasNul(name) THEN None
    ELSE IF DepthLoop(Components(plat, name), 1, 0) THEN Some(name)
    ELSE None

(***************************************************************************)
(* Paths and the filesystem.                                               *)
(***************************************************************************)
\* The extraction target, an existing directory below the root.
Target == <<"t">>

\* target.join(relpath): a path compares by its components, so the
\* current-directory component of the relative path leaves no trace.
RECURSIVE RelParts(_, _)
RelParts(comps, i) ==
    IF i > Len(comps) THEN <<>>
    ELSE IF comps[i].k = "CurDir" THEN RelParts(comps, i + 1)
    ELSE <<comps[i].s>> \o RelParts(comps, i + 1)

JoinFlat(plat, base, rel) ==
    LET parts == RelParts(Components(plat, rel), 1)
    IN  IF parts = <<>> THEN base ELSE Append(base, parts[Len(parts)])
Join(plat, base, rel) == base \o RelParts(Components(plat, rel), 1)

\* Path::parent: the path without its last component.
Parent(path) == IF path = <<>> THEN None ELSE Some(SubSeq(path, 1, Len(path) - 1))

\* entry.dir(): the name ends with a separator.
IsDirName(name) == Len(name) >= 2 /\ name[Len(name)] = ""

Up(loc) == IF loc = <<>> THEN <<>> ELSE SubSeq(loc, 1, Len(loc) - 1)

IsNode(f, loc, kind) == loc \in DOMAIN f /\ f[loc].kind = kind

\* What a newly made file and directory get (0o666 and 0o777 less the umask).
DefaultFileMode == Mode644
DefaultDirMode == Mode755

FileNode(mode, content) == [kind |-> "file", mode |-> mode, content |-> content]
DirNode == [kind |-> "dir", mode |-> DefaultDirMode, content |-> ""]
SymlinkNode == [kind |-> "symlink", mode |-> Mode755, content |-> ""]

Put(f, loc, node) == (loc :> node) @@ f

\* The filesystem's walk of a path from location `cur`: every component is
\* taken from an existing directory; the last one may name anything or nothing.
RECURSIVE Walk(_, _, _, _)
Walk(f, path, i, cur) ==
    IF i > Len(path) THEN Some(cur)
    ELSE IF ~IsNode(f, cur, "dir") THEN None
    ELSE Walk(f, path, i + 1, IF path[i] = ".." THEN Up(cur) ELSE Append(cur, path[i]))

Resolve(f, path) == Walk(f, path, 1, <<>>)

\* create_dir_all: every missing directory along the path is made; a
\* component that exists and is no directory fails the call.
RECURSIVE MkdirWalk(_, _, _, _, _)
MkdirWalk(f, path, i, cur, made) ==
    IF i > Len(path) THEN [ok |-> TRUE, fs |-> f, made |-> made]
    ELSE IF path[i] = ".." THEN MkdirWalk(f, path, i + 1, Up(cur), made)
    ELSE LET nxt == Append(cur, path[i])
         IN  IF nxt \notin DOMAIN f
                 THEN MkdirWalk(Put(f, nxt, DirNode), path, i + 1, nxt, Append(made, nxt))
             ELSE IF f[nxt].kind = "dir" THEN MkdirWalk(f, path, i + 1, nxt, made)
             ELSE [ok |-> FALSE, fs |-> f, made |-> made]

CreateDirAll(f, path) == MkdirWalk(f, path, 1, <<>>, <<>>)

\* File::create: the file is made, or truncated when it exists (its mode kept).
FileCreate(f, path) ==
    LET r == Resolve(f, path)
    IN  IF ~r.some THEN [ok |-> FALSE, fs |-> f, loc |-> <<>>]
        ELSE IF r.val \notin DOMAIN f
            THEN [ok |-> TRUE, fs |-> Put(f, r.val, FileNode(DefaultFileMode, "")), loc |-> r.val]
        ELSE IF f[r.val].kind = "file"
            THEN [ok |-> TRUE, fs |-> [f EXCEPT ![r.val].content = ""], loc |-> r.val]
        ELSE [ok |-> FALSE, fs |-> f, loc |-> r.val]

\* metadata(path): the node the path names, when there is one.
Metadata(f, path) ==
    LET r == Resolve(f, path)
    IN  IF r.some /\ r.val \in DOMAIN f THEN Some([loc |-> r.val, mode |-> f[r.val].mode])
        ELSE None

(***************************************************************************)
(* The archives: what the stream can hold.                                 *)
(***************************************************************************)
\* CRC32 of the two payloads of the model; the empty payload's is 0.
Crc32(content) == IF content = "" THEN 0 ELSE 7

\* A declared checksum that matches no payload.
WrongCrc == Crc32("hi") + 2

ZipEntry(name, mode, content, crc) ==
    [name |-> name, mode |-> mode, content |-> content, crc |-> crc]

ZipDirNames == {<<"a", "">>}
ZipFileNames == {<<"a", "b">>, <<"b">>, <<"a", "..", "b">>, <<"..", "b">>, <<"">>}

\* Directory entries carry no data; a file entry's declared checksum is
\* right, zero or wrong.
ZipEntries ==
    {ZipEntry(n, m, "", 0) : n \in ZipDirNames, m \in {None, Some(Mode755)}}
    \cup {ZipEntry(n, m, "hi", c) : n \in ZipFileNames,
                                   m \in {None, Some(Mode644), Some(Mode754)},
                                   c \in {Crc32("hi"), 0, WrongCrc}}
    \cup {ZipEntry(n, Some(Mode644), "", 0) : n \in {<<"b">>}}

(***************************************************************************)
(* Records of what an extraction did, in order.                            *)
(***************************************************************************)
\* A directory made, a file created or truncated, a file's bytes written, a
\* mode changed (each at a location of the filesystem), a create_dir_all call.
OpMkdirCall(n, path) == [op |-> "create_dir_all", n |-> n, path |-> path]
OpMkdir(n, loc) == [op |-> "mkdir", n |-> n, loc |-> loc]
OpCreate(n, loc) == [op |-> "create", n |-> n, loc |-> loc]
OpWrite(n, loc, content) == [op |-> "write", n |-> n, loc |-> loc, content |-> content]
OpChmod(n, loc, old, new) ==
    [op |-> "set_permissions", n |-> n, loc |-> loc, old |-> old, new |-> new]

RECURSIVE MkdirOps(_, _, _)
MkdirOps(n, made, i) ==
    IF i > Len(made) THEN <<>> ELSE <<OpMkdir(n, made[i])>> \o MkdirOps(n, made, i + 1)

IoError == [type |-> "Io"]
ZipError == [type |-> "AsyncZip"]
BadCrc32(path, computed, expected) ==
    [type |-> "BadCrc32", path |-> path, computed |-> computed, expected |-> expected]

Outcome(f, dirs, ops, warns, err) ==
    [fs |-> f, directories |-> dirs, ops |-> ops, warns |-> warns, error |-> err]

(***************************************************************************)
(* unzip: one iteration of the loop over the entries.                      *)
(***************************************************************************)
\* if directories.insert(path) { create_dir_all(path)? }
EnsureDirAlways(f, dirs, path, n) ==
    LET r == CreateDirAll(f, path)
    IN  Outcome(r.fs, dirs \cup {path},
                <<OpMkdirCall(n, path)>> \o MkdirOps(n, r.made, 1), <<>>,
                IF r.ok THEN None ELSE Some(IoError))
EnsureDirForgets(f, dirs, path, n) ==
    LET r == CreateDirAll(f, path)
    IN  IF path \in dirs THEN Outcome(f, dirs, <<>>, <<>>, None)
        ELSE Outcome(r.fs, dirs,
                     <<OpMkdirCall(n, path)>> \o MkdirOps(n, r.made, 1), <<>>,
                     IF r.ok THEN None ELSE Some(IoError))
EnsureDir(f, dirs, path, n) ==
    IF path \in dirs THEN Outcome(f, dirs, <<>>, <<>>, None)
    ELSE LET r == CreateDirAll(f, path)
         IN  Outcome(r.fs, dirs \cup {path},
                     <<OpMkdirCall(n, path)>> \o MkdirOps(n, r.made, 1), <<>>,
                     IF r.ok THEN None ELSE Some(IoError))

\* The comparison of the computed checksum with the declared one.
CrcVerdictStrict(computed, expected) == IF computed = expected THEN "ok" ELSE "fail"
CrcVerdictNeverFail(computed, expected) == IF computed = expected THEN "ok" ELSE "warn"
CrcVerdict(computed, expected) ==
    IF computed = expected THEN "ok"
    ELSE IF expected = 0 THEN "warn"
    ELSE "fail"

\* The directory branch.
UnzipDirectory(plat, f, dirs, e, n) ==
    EnsureDir(f, dirs, Join(plat, Target, EnclosedName(plat, e.name).val), n)

\* The file branch: the parent directory, the file, the copy, the checksum.
UnzipFile(plat, f, dirs, e, n) ==
    LET rel == EnclosedName(plat, e.name).val
        path == Join(plat, Target, rel)
        par == Parent(path)
        d == IF par.some THEN EnsureDir(f, dirs, par.val, n)
             ELSE Outcome(f, dirs, <<>>, <<>>, None)
        c == FileCreate(d.fs, path)
        verdict == CrcVerdict(Crc32(e.content), e.crc)
        bad == BadCrc32(rel, Crc32(e.content), e.crc)
    IN  IF d.error.some THEN d
        ELSE IF ~c.ok THEN Outcome(d.fs, d.directories, d.ops, <<>>, Some(IoError))
        ELSE Outcome([c.fs EXCEPT ![c.loc].content = e.content], d.directories,
                     d.ops \o <<OpCreate(n, c.loc), OpWrite(n, c.loc, e.content)>>,
                     IF verdict = "warn" THEN <<[kind |-> "crc", n |-> n, error |-> bad]>>
                     ELSE <<>>,
                     IF verdict = "fail" THEN Some(bad) ELSE None)

\* The same iteration when the filesystem fails a call that would have
\* succeeded: create_dir_all, File::create or the copy.  `applies` tells
\* whether the iteration makes that call at all.
FaultPoints == {"create_dir_all", "create", "copy"}

UnzipFault(plat, f, dirs, e, n, point) ==
    LET path == Join(plat, Target, EnclosedName(plat, e.name).val)
        par == Parent(path)
        dir == IF IsDirName(e.name) THEN Some(path) ELSE par
        d == IF dir.some THEN EnsureDir(f, dirs, dir.val, n)
             ELSE Outcome(f, dirs, <<>>, <<>>, None)
        c == FileCreate(d.fs, path)
    IN  CASE point = "create_dir_all" ->
                [applies |-> dir.some /\ dir.val \notin dirs /\ ~d.error.some,
                 out |-> Outcome(f, d.directories,
                                 <<OpMkdirCall(n, IF dir.some THEN dir.val ELSE path)>>, <<>>,
                                 Some(IoError))]
          [] point = "create" ->
                [applies |-> ~IsDirName(e.name) /\ ~d.error.some /\ c.ok,
                 out |-> Outcome(d.fs, d.directories, d.ops, <<>>, Some(IoError))]
          [] OTHER ->
                [applies |-> ~IsDirName(e.name) /\ ~d.error.some /\ c.ok,
                 out |-> Outcome(c.fs, d.directories, d.ops \o <<OpCreate(n, c.loc)>>,
                                 <<>>, Some(IoError))]

\* The central-directory pass over one record: the mode change, if any.
HasAnyExecutableBitOther(mode) == BitAnd(mode, 1)
HasAnyExecutableBit(mode) == BitAnd(mode, ExecMask)

\* permissions.mode() & 0o111 != 0o111
LacksFullExec(mode) == BitAnd(mode, ExecMask) # ExecMask

\* Permissions::from_mode(permissions.mode() | 0o111)
PatchedMode(mode) == BitOr(mode, ExecMask)

\* metadata, then set_permissions when the mode lacks an execute bit.
PreserveExecAlways(f, path, n) ==
    LET m == Metadata(f, path)
    IN  IF ~m.some THEN Outcome(f, {}, <<>>, <<>>, Some(IoError))
        ELSE Outcome([f EXCEPT ![m.val.loc].mode = PatchedMode(m.val.mode)], {},
                     <<OpChmod(n, m.val.loc, m.val.mode, PatchedMode(m.val.mode))>>,
                     <<>>, None)
PreserveExec(f, path, n) ==
    LET m == Metadata(f, path)
    IN  IF ~m.some THEN Outcome(f, {}, <<>>, <<>>, Some(IoError))
        ELSE IF LacksFullExec(m.val.mode)
            THEN Outcome([f EXCEPT ![m.val.loc].mode = PatchedMode(m.val.mode)], {},
                         <<OpChmod(n, m.val.loc, m.val.mode, PatchedMode(m.val.mode))>>,
                         <<>>, None)
        ELSE Outcome(f, {}, <<>>, <<>>, None)

UnzipPermissionsAnyMode(plat, f, e, n) ==
    IF IsDirName(e.name) THEN Outcome(f, {}, <<>>, <<>>, None)
    ELSE IF ~e.mode.some THEN Outcome(f, {}, <<>>, <<>>, None)
    ELSE IF ~EnclosedName(plat, e.name).some THEN Outcome(f, {}, <<>>, <<>>, None)
    ELSE PreserveExec(f, Join(plat, Target, EnclosedName(plat, e.name).val), n)
UnzipPermissionsUnsanitized(plat, f, e, n) ==
    IF IsDirName(e.name) \/ ~e.mode.some \/ HasAnyExecutableBit(e.mode.val) = 0
        THEN Outcome(f, {}, <<>>, <<>>, None)
    ELSE PreserveExec(f, Join(plat, Target, e.name), n)
UnzipPermissions(plat, f, e, n) ==
    IF IsDirName(e.name) THEN Outcome(f, {}, <<>>, <<>>, None)
    ELSE IF ~e.mode.some THEN Outcome(f, {}, <<>>, <<>>, None)
    ELSE IF HasAnyExecutableBit(e.mode.val) = 0 THEN Outcome(f, {}, <<>>, <<>>, None)
    ELSE IF ~EnclosedName(plat, e.name).some THEN Outcome(f, {}, <<>>, <<>>, None)
    ELSE PreserveExec(f, Join(plat, Target, EnclosedName(plat, e.name).val), n)

(***************************************************************************)
(* The state.                                                              *)
(***************************************************************************)
SourceDistExtension ==
    {"Zip", "Tar", "Tgz", "TarGz", "Tbz", "TarBz2", "Txz", "TarXz", "Tlz", "TarLz",
     "TarLzma", "TarZst"}

\* The root, the empty target below it, and a file beside the target.
InitFs ==
    (<<>> :> DirNode) @@ (Target :> DirNode) @@ (<<"b">> :> FileNode(Mode644, "orig"))

Idle ==
    /\ entries = <<>>
    /\ cd = 0
    /\ fs = InitFs
    /\ directories = {}
    /\ memo = {}
    /\ warnings = <<>>
    /\ error = None
    /\ trace = <<>>

Init ==
    /\ platform \in {"unix", "windows"}
    /\ ext \in SourceDistExtension
    /\ extractor = "none"
    /\ pc = "archive"
    /\ Idle
    /\ sname = <<>>
    /\ sres = None
    /\ procs = <<>>
    /\ writer = None
    /\ size = <<0, 0, 0, 0>>
    /\ pointer_width = 64

\* The place of the entry being read in the stream.
Nth == Len(entries) + 1

ApplyContinue(o, e, nextpc) ==
    /\ entries' = Append(entries, e)
    /\ fs' = o.fs
    /\ directories' = o.directories
    /\ trace' = trace \o o.ops
    /\ warnings' = warnings \o o.warns
    /\ error' = o.error
    /\ pc' = nextpc
    /\ UNCHANGED <<platform, ext, extractor, cd, memo, sname, sres, procs, writer, size, pointer_width>>
Apply(o, e, nextpc) ==
    /\ entries' = Append(entries, e)
    /\ fs' = o.fs
    /\ directories' = o.directories
    /\ trace' = trace \o o.ops
    /\ warnings' = warnings \o o.warns
    /\ error' = o.error
    /\ pc' = IF o.error.some THEN "Failed" ELSE nextpc
    /\ UNCHANGED <<platform, ext, extractor, cd, memo, sname, sres, procs, writer, size, pointer_width>>

Fail(err) ==
    /\ pc' = "Failed"
    /\ error' = Some(err)
    /\ UNCHANGED <<platform, ext, extractor, entries, cd, fs, directories, memo,
                   warnings, trace, sname, sres, procs, writer, size, pointer_width>>

(***************************************************************************)
(* unzip.                                                                  *)
(***************************************************************************)
\* The sanitizer rejects the name: a warning, the entry skipped.
ZipSkipUnsafeAbort ==
    /\ pc = "ReadNextEntry"
    /\ Len(entries) < MaxEntries
    /\ \E e \in ZipEntries :
        /\ ~EnclosedName(platform, e.name).some
        /\ Apply(Outcome(fs, directories, <<>>, <<>>, Some(ZipError)), e, "ReadNextEntry")
ZipSkipUnsafe ==
    /\ pc = "ReadNextEntry"
    /\ Len(entries) < MaxEntries
    /\ \E e \in ZipEntries :
        /\ ~EnclosedName(platform, e.name).some
        /\ Apply(Outcome(fs, directories, <<>>,
                         <<[kind |-> "unsafe", n |-> Nth, name |-> e.name]>>, None),
                 e, "ReadNextEntry")

ZipDirectoryEntry ==
    /\ pc = "ReadNextEntry"
    /\ Len(entries) < MaxEntries
    /\ \E e \in ZipEntries :
        /\ EnclosedName(platform, e.name).some
        /\ IsDirName(e.name)
        /\ Apply(UnzipDirectory(platform, fs, directories, e, Nth), e, "ReadNextEntry")

ZipFileEntry ==
    /\ pc = "ReadNextEntry"
    /\ Len(entries) < MaxEntries
    /\ \E e \in ZipEntries :
        /\ EnclosedName(platform, e.name).some
        /\ ~IsDirName(e.name)
        /\ Apply(UnzipFile(platform, fs, directories, e, Nth), e, "ReadNextEntry")

\* The filesystem fails the iteration over a safe entry.
ZipIoFailure ==
    /\ pc = "ReadNextEntry"
    /\ Len(entries) < MaxEntries
    /\ \E e \in ZipEntries, point \in FaultPoints :
        /\ EnclosedName(platform, e.name).some
        /\ UnzipFault(platform, fs, directories, e, Nth, point).applies
        /\ Apply(UnzipFault(platform, fs, directories, e, Nth, point).out, e,
                 "ReadNextEntry")

\* next_with_entry, the name's decoding or skip fails.
ZipStreamError ==
    /\ pc = "ReadNextEntry"
    /\ Fail(ZipError)

\* The stream holds no further entry.
AfterEntriesAlways(plat) == "PatchPermissions"
AfterEntries(plat) == IF plat = "unix" THEN "PatchPermissions" ELSE "Done"

ZipEndOfEntries ==
    /\ pc = "ReadNextEntry"
    /\ pc' = AfterEntries(platform)
    /\ cd' = 1
    /\ UNCHANGED <<platform, ext, extractor, entries, fs, directories, memo,
                   warnings, error, trace, sname, sres, procs, writer, size, pointer_width>>

\* One record of the central directory, which lists the entries in order.
ZipPatchPermissions ==
    /\ pc = "PatchPermissions"
    /\ cd <= Len(entries)
    /\ LET o == UnzipPermissions(platform, fs, entries[cd], cd)
       IN  /\ fs' = o.fs
           /\ trace' = trace \o o.ops
           /\ error' = o.error
           /\ pc' = IF o.error.some THEN "Failed" ELSE "PatchPermissions"
    /\ cd' = cd + 1
    /\ UNCHANGED <<platform, ext, extractor, entries, directories, memo, warnings,
                   sname, sres, procs, writer, size, pointer_width>>

\* directory.next(), metadata or set_permissions fails.
ZipCentralDirectoryError ==
    /\ pc = "PatchPermissions"
    /\ \E err \in {ZipError, IoError} : Fail(err)

ZipDoneRestart ==
    /\ pc = "PatchPermissions"
    /\ cd > Len(entries)
    /\ pc' = "PatchPermissions"
    /\ cd' = 1
    /\ UNCHANGED <<platform, ext, extractor, entries, fs, directories, memo,
                   warnings, error, trace, sname, sres, procs, writer, size, pointer_width>>
ZipDone ==
    /\ pc = "PatchPermissions"
    /\ cd > Len(entries)
    /\ pc' = "Done"
    /\ UNCHANGED <<platform, ext, extractor, entries, cd, fs, directories, memo,
                   warnings, error, trace, sname, sres, procs, writer, size, pointer_width>>

(***************************************************************************)
(* untar_in.                                                               *)
(***************************************************************************)
TarEntry(name, type, mode) == [name |-> name, type |-> type, mode |-> mode]

\* The segment "xff" stands for one that is not valid Unicode.
TarNames == {<<"a">>, <<"b">>, <<"..", "b">>, <<"xff">>}
TarEntries ==
    {TarEntry(n, t, m) : n \in TarNames, t \in {"file", "hardlink"},
                         m \in {Mode644, Mode754}}
    \cup {TarEntry(n, t, Mode755) : n \in TarNames, t \in {"dir", "symlink"}}

\* Entry::path: it fails for a name that is not valid Unicode, on Windows only.
PathDecodes(plat, name) == ~(plat = "windows" /\ \E i \in 1..Len(name) : name[i] = "xff")

\* What every link entry of the model links to.
LinkTarget == Append(Target, "b")

UnpackResult(f, mem, ops, at, err) ==
    [fs |-> f, memo |-> mem, ops |-> ops, at |-> at, error |-> err]

\* The inode a location names: a hard link shares the inode it was made for.
Inode(f, loc) == IF f[loc].kind = "hardlink" THEN f[loc].to ELSE loc

\* Entry::unpack_in_raw of tokio-tar: Ok(None) for a name with a parent
\* directory component, else the entry is made below the destination with the
\* system's default mode and Ok(Some(path)) is returned.
UnpackInRaw(plat, f, mem, e, n) ==
    LET comps == Components(plat, e.name)
        climbs == \E i \in 1..Len(comps) : comps[i].k = "ParentDir"
        normal == SelectSeq(comps, LAMBDA c : c.k = "Normal")
        dest == Target \o [i \in 1..Len(normal) |-> normal[i].s]
        par == Up(dest)
        d == IF par \in mem THEN [ok |-> TRUE, fs |-> f, made |-> <<>>]
             ELSE CreateDirAll(f, par)
        mem1 == mem \cup {par}
        g == d.fs
        dops == MkdirOps(n, d.made, 1)
    IN  IF ~PathDecodes(plat, e.name) THEN UnpackResult(f, mem, <<>>, None, Some(IoError))
        ELSE IF climbs \/ normal = <<>> THEN UnpackResult(f, mem, <<>>, None, None)
        ELSE IF ~d.ok THEN UnpackResult(g, mem1, dops, None, Some(IoError))
        ELSE CASE e.type = "dir" ->
                    IF dest \notin DOMAIN g
                        THEN UnpackResult(Put(g, dest, DirNode), mem1,
                                          dops \o <<OpMkdir(n, dest)>>, Some(dest), None)
                    ELSE IF g[dest].kind = "dir"
                        THEN UnpackResult(g, mem1, dops, Some(dest), None)
                    ELSE UnpackResult(g, mem1, dops, None, Some(IoError))
               [] e.type = "file" ->
                    IF dest \in DOMAIN g /\ g[dest].kind = "dir"
                        THEN UnpackResult(g, mem1, dops, None, Some(IoError))
                    ELSE UnpackResult(Put(g, dest, FileNode(DefaultFileMode, "hi")), mem1,
                                      dops \o <<OpCreate(n, dest), OpWrite(n, dest, "hi")>>,
                                      Some(dest), None)
               [] e.type = "symlink" ->
                    IF dest \in DOMAIN g /\ g[dest].kind = "dir"
                        THEN UnpackResult(g, mem1, dops, None, Some(IoError))
                    ELSE UnpackResult(Put(g, dest, SymlinkNode), mem1,
                                      dops \o <<[op |-> "symlink", n |-> n, loc |-> dest]>>,
                                      Some(dest), None)
               [] OTHER ->
                    IF ~IsNode(g, LinkTarget, "file") \/ dest = LinkTarget
                           \/ (dest \in DOMAIN g /\ g[dest].kind = "dir")
                        THEN UnpackResult(g, mem1, dops, None, Some(IoError))
                    ELSE UnpackResult(
                             Put(g, dest, [kind |-> "hardlink", to |-> LinkTarget,
                                           mode |-> 0, content |-> ""]),
                             mem1,
                             dops \o <<[op |-> "hard_link", n |-> n, loc |-> dest,
                                        to |-> LinkTarget]>>,
                             Some(dest), None)

\* ArchiveBuilder: what each tar extractor sets before it builds the archive.
TarConfig(mtime, permissions, external) ==
    [preserve_mtime |-> mtime, preserve_permissions |-> permissions,
     allow_external_symlinks |-> external]

ArchiveBuilderGzPreserves(x) ==
    IF x = "untar_gz" THEN TarConfig(FALSE, TRUE, FALSE) ELSE TarConfig(FALSE, FALSE, FALSE)
ArchiveBuilder(x) ==
    CASE x = "untar_gz" -> TarConfig(FALSE, FALSE, FALSE)
      [] x = "untar_bz2" -> TarConfig(FALSE, FALSE, FALSE)
      [] x = "untar_zst" -> TarConfig(FALSE, FALSE, FALSE)
      [] x = "untar_xz" -> TarConfig(FALSE, FALSE, FALSE)
      [] x = "untar" -> TarConfig(FALSE, FALSE, FALSE)

\* What the archive's configuration adds to an unpacked entry: an archive that
\* preserves permissions or modification times stamps the stored ones on the
\* file it wrote.
Preserve(cfg, e, n, u) ==
    LET stamps == u.at.some /\ ~u.error.some /\ e.type = "file"
        g == IF stamps /\ cfg.preserve_permissions
                 THEN [u.fs EXCEPT ![u.at.val].mode = e.mode]
             ELSE u.fs
        modeOps == IF stamps /\ cfg.preserve_permissions
                       THEN <<[op |-> "stored_mode", n |-> n, loc |-> u.at.val]>>
                   ELSE <<>>
        timeOps == IF stamps /\ cfg.preserve_mtime
                       THEN <<[op |-> "stored_mtime", n |-> n, loc |-> u.at.val]>>
                   ELSE <<>>
    IN  [u EXCEPT !.fs = g, !.ops = u.ops \o modeOps \o timeOps]

\* unpack_in_raw under the archive's configuration.
UnpackIn(cfg, plat, f, mem, e, n) ==
    Preserve(cfg, e, n, UnpackInRaw(plat, f, mem, e, n))

\* cfg!(windows) && entry_type().is_symlink()
SkipsSymlink(plat, e) == plat = "windows" /\ e.type = "symlink"

\* The executable-bit block after the unpacking (Unix only).
TarPreserveExecNoBitCheck(plat, f, e, at, n) ==
    IF plat # "unix" THEN Outcome(f, {}, <<>>, <<>>, None)
    ELSE IF e.type \notin {"file", "hardlink"} THEN Outcome(f, {}, <<>>, <<>>, None)
    ELSE IF ~at.some THEN Outcome(f, {}, <<>>, <<>>, None)
    ELSE LET loc == Inode(f, at.val)
             old == f[loc].mode
         IN  IF LacksFullExec(old)
                 THEN Outcome([f EXCEPT ![loc].mode = PatchedMode(old)], {},
                              <<OpChmod(n, loc, old, PatchedMode(old))>>, <<>>, None)
             ELSE Outcome(f, {}, <<>>, <<>>, None)
TarPreserveExec(plat, f, e, at, n) ==
    IF plat # "unix" THEN Outcome(f, {}, <<>>, <<>>, None)
    ELSE IF e.type \notin {"file", "hardlink"} THEN Outcome(f, {}, <<>>, <<>>, None)
    ELSE IF HasAnyExecutableBit(e.mode) = 0 THEN Outcome(f, {}, <<>>, <<>>, None)
    ELSE IF ~at.some THEN Outcome(f, {}, <<>>, <<>>, None)
    ELSE LET loc == Inode(f, at.val)
             old == f[loc].mode
         IN  IF LacksFullExec(old)
                 THEN Outcome([f EXCEPT ![loc].mode = PatchedMode(old)], {},
                              <<OpChmod(n, loc, old, PatchedMode(old))>>, <<>>, None)
             ELSE Outcome(f, {}, <<>>, <<>>, None)

\* A symlink entry on Windows: a warning that shows file.path()?, nothing
\* unpacked; a path that does not decode fails the call instead.
TarSkipSymlink ==
    /\ pc = "TarEntries"
    /\ Len(entries) < MaxEntries
    /\ \E e \in TarEntries :
        /\ SkipsSymlink(platform, e)
        /\ entries' = Append(entries, e)
        /\ IF PathDecodes(platform, e.name)
              THEN /\ warnings' = Append(warnings,
                                         [kind |-> "symlink", n |-> Nth, name |-> e.name])
                   /\ UNCHANGED <<pc, error>>
              ELSE /\ pc' = "Failed"
                   /\ error' = Some(IoError)
                   /\ UNCHANGED warnings
    /\ UNCHANGED <<platform, ext, extractor, cd, fs, directories, memo, trace, sname, sres, procs, writer, size, pointer_width>>

\* Any other entry: unpacked, then its executable bit preserved.
TarUnpackEntry ==
    /\ pc = "TarEntries"
    /\ Len(entries) < MaxEntries
    /\ \E e \in TarEntries :
        /\ ~SkipsSymlink(platform, e)
        /\ LET u == UnpackIn(ArchiveBuilder(extractor), platform, fs, memo, e, Nth)
               x == IF u.error.some THEN Outcome(u.fs, {}, <<>>, <<>>, u.error)
                    ELSE TarPreserveExec(platform, u.fs, e, u.at, Nth)
           IN  /\ entries' = Append(entries, e)
               /\ fs' = x.fs
               /\ memo' = u.memo
               /\ trace' = trace \o u.ops \o x.ops
               /\ error' = x.error
               /\ pc' = IF x.error.some THEN "Failed" ELSE "TarEntries"
    /\ UNCHANGED <<platform, ext, extractor, cd, directories, warnings, sname, sres, procs, writer, size, pointer_width>>

\* The stream fails: a corrupt compressed stream, a malformed header, a read error.
TarStreamError ==
    /\ pc = "TarEntries"
    /\ Fail(IoError)

TarDone ==
    /\ pc = "TarEntries"
    /\ pc' = "Done"
    /\ UNCHANGED <<platform, ext, extractor, entries, cd, fs, directories, memo,
                   warnings, error, trace, sname, sres, procs, writer, size, pointer_width>>

(***************************************************************************)
(* archive: the dispatcher.                                                *)
(***************************************************************************)
ExtractorLzAsGz(e) ==
    CASE e = "Zip" -> "unzip"
      [] e = "Tar" -> "untar"
      [] e \in {"Tgz", "TarGz", "Tlz", "TarLz"} -> "untar_gz"
      [] e \in {"Tbz", "TarBz2"} -> "untar_bz2"
      [] e \in {"Txz", "TarXz", "TarLzma"} -> "untar_xz"
      [] e = "TarZst" -> "untar_zst"
Extractor(e) ==
    CASE e = "Zip" -> "unzip"
      [] e = "Tar" -> "untar"
      [] e \in {"Tgz", "TarGz"} -> "untar_gz"
      [] e \in {"Tbz", "TarBz2"} -> "untar_bz2"
      [] e \in {"Txz", "TarXz", "Tlz", "TarLz", "TarLzma"} -> "untar_xz"
      [] e = "TarZst" -> "untar_zst"

\* The match moves `ext`; the extractor called never sees it.
Archive ==
    /\ pc = "archive"
    /\ extractor' = Extractor(ext)
    /\ ext' = "moved"
    /\ pc' = IF Extractor(ext) = "unzip" THEN "ReadNextEntry" ELSE "TarEntries"
    /\ UNCHANGED <<platform, entries, cd, fs, directories, memo, warnings, error,
                   trace, sname, sres, procs, writer, size, pointer_width>>

Next ==
    \/ Archive
    \/ ZipSkipUnsafe
    \/ ZipDirectoryEntry
    \/ ZipFileEntry
    \/ ZipIoFailure
    \/ ZipStreamError
    \/ ZipEndOfEntries
    \/ ZipPatchPermissions
    \/ ZipCentralDirectoryError
    \/ ZipDone
    \/ TarSkipSymlink
    \/ TarUnpackEntry
    \/ TarStreamError
    \/ TarDone

Spec == Init /\ [][Next]_vars

\* The pass over the central directory has a record left to visit.
PassEnabled == pc = "PatchPermissions" /\ cd <= Len(entries)

\* Weak fairness of ZipPatchPermissions, the one step that advances cd, with
\* its enabling condition written out.
PassFairness == []<>(~PassEnabled) \/ []<><<cd' = cd + 1>>_vars

\* The extraction is a future the runtime polls until it is ready, and every
\* read of a finite stream returns: the dispatcher makes its call, neither
\* loop waits for a next entry or record for ever, and the function returns.
SpecLive ==
    /\ Init /\ [][Next]_vars
    /\ WF_vars(Archive)
    /\ WF_vars(ZipEndOfEntries)
    /\ PassFairness
    /\ WF_vars(ZipDone)
    /\ WF_vars(TarDone)

(***************************************************************************)
(* The sanitizer alone, over every name of at most MaxSegs segments.       *)
(***************************************************************************)
Segments == {"", ".", "..", "a", "nul", "c:"}

Names == UNION {[1..n -> Segments] : n \in 1..MaxSegs}

SanInit ==
    /\ platform \in {"unix", "windows"}
    /\ ext = "Zip"
    /\ extractor = "unzip"
    /\ pc = "sanitize"
    /\ Idle
    /\ sname \in Names
    /\ sres = None
    /\ procs = <<>>
    /\ writer = None
    /\ size = <<0, 0, 0, 0>>
    /\ pointer_width = 64

SanitizeName ==
    /\ pc = "sanitize"
    /\ sres' = EnclosedName(platform, sname)
    /\ pc' = "sanitized"
    /\ UNCHANGED <<platform, ext, extractor, entries, cd, fs, directories, memo,
                   warnings, error, trace, sname, procs, writer, size, pointer_width>>

SanNext == SanitizeName

SpecSan == SanInit /\ [][SanNext]_vars

(***************************************************************************)
(* The write buffer of a zip file entry alone (stream.rs:80-85).           *)
(***************************************************************************)
\* uncompressed_size() is a u64, held here as four 16-bit limbs, the most
\* significant first. The limbs drawn put the sizes at and around 0, 8 KiB,
\* 128 KiB, 1 MiB, 2^32 and 2^64 - 1.
Limb == 65536
HighLimbs == {0, 1, Limb - 1}
MidLimbs == {0, 2, 15, 16, 17, Limb - 1}
LowLimbs == {0, 1, 8 * 1024, Limb - 1}
Sizes == {<<a, b, c, d>> : a \in HighLimbs, b \in HighLimbs, c \in MidLimbs, d \in LowLimbs}

\* target_pointer_width of the build: the width of usize.
PointerWidths == {32, 64}

\* usize::try_from(size): Ok on a 64-bit build, and on a 32-bit build when
\* the value is below 2^32.
UsizeTryFrom(width, s) ==
    IF width = 64 \/ (s[1] = 0 /\ s[2] = 0) THEN Some(s) ELSE None

\* 128 * 1024: the capacity of the readers (stream.rs:13, 45, 231-312).
DEFAULT_BUF_SIZE == 128 * 1024
\* The capacity tokio::io::BufWriter::new gives a writer.
BufWriterNew == 8 * 1024
\* 1024 * 1024
WithCapacityCap == 1024 * 1024

\* std::cmp::min(size, cap) for a cap below 2^31, as a number.
CmpMin(s, cap) ==
    IF s[1] = 0 /\ s[2] = 0 /\ s[3] < cap \div Limb
        THEN s[3] * Limb + s[4]
    ELSE IF s[1] = 0 /\ s[2] = 0 /\ s[3] = cap \div Limb /\ s[4] < cap % Limb
        THEN s[3] * Limb + s[4]
    ELSE cap

\* The capacity of the writer made for an entry of the declared size.
WriterCapacityLoose(width, s) ==
    LET r == UsizeTryFrom(width, s)
    IN  IF r.some THEN CmpMin(r.val, 2 * WithCapacityCap) ELSE BufWriterNew
WriterCapacity(width, s) ==
    LET r == UsizeTryFrom(width, s)
    IN  IF r.some THEN CmpMin(r.val, WithCapacityCap) ELSE BufWriterNew

BufInit ==
    /\ platform \in {"unix", "windows"}
    /\ ext = "Zip"
    /\ extractor = "unzip"
    /\ pc = "File::create"
    /\ Idle
    /\ sname = <<>>
    /\ sres = None
    /\ procs = <<>>
    /\ writer = None
    /\ size \in Sizes
    /\ pointer_width \in PointerWidths

MakeWriter ==
    /\ pc = "File::create"
    /\ writer' = Some([capacity |-> WriterCapacity(pointer_width, size)])
    /\ pc' = "copy"
    /\ UNCHANGED <<platform, ext, extractor, entries, cd, fs, directories, memo,
                   warnings, error, trace, sname, sres, procs, size, pointer_width>>

BufNext == MakeWriter

SpecBuf == BufInit /\ [][BufNext]_vars

(***************************************************************************)
(* Two unzip calls at once, each into its own target, on one filesystem.   *)
(* A call is suspended only at its awaits: the step of a process is what   *)
(* it does from one await to the next.                                     *)
(***************************************************************************)
\* Entries one archive of a concurrent call holds at most.
MaxParEntries == 2

\* The second call's target: beside the first call's, or inside it.
OtherTargets == {<<"u">>, <<"t", "a">>}

ParEntries ==
    {ZipEntry(<<"a", "">>, None, "", 0),
     ZipEntry(<<"b", "">>, None, "", 0),
     ZipEntry(<<"a", "b">>, Some(Mode754), "hi", Crc32("hi")),
     ZipEntry(<<"b">>, Some(Mode644), "hi", 0),
     ZipEntry(<<"..", "b">>, None, "hi", Crc32("hi"))}

\* The root, the first call's target and the second call's.
ParFs(other) ==
    (<<>> :> DirNode) @@ (Target :> DirNode) @@ (other :> DirNode)

\* The locals of one unzip call as it starts (stream.rs:44-48).
ProcInit(tgt) ==
    [target |-> tgt, pc |-> "ReadNextEntry", entries |-> <<>>, cd |-> 0,
     directories |-> {}, warnings |-> <<>>, error |-> None, trace |-> <<>>,
     file |-> None, steps |-> 0]

\* target.as_ref() of the call.
ProcTargetShared(p) == Target
ProcTarget(p) == p.target

\* The entry the call is working on, its place, its joined path.
ProcEntry(p) == p.entries[Len(p.entries)]
ProcPath(plat, p, e) == Join(plat, ProcTarget(p), EnclosedName(plat, e.name).val)

Stepped(p, f) == [proc |-> [p EXCEPT !.steps = p.steps + 1], fs |-> f]

\* What an outcome of the iteration leaves in the call's locals.
ProcApply(p, e, o, nextpc) ==
    Stepped([p EXCEPT !.entries = Append(p.entries, e),
                      !.directories = o.directories,
                      !.trace = p.trace \o o.ops,
                      !.warnings = p.warnings \o o.warns,
                      !.error = o.error,
                      !.pc = IF o.error.some THEN "Failed" ELSE nextpc],
            o.fs)

\* The parent directory of a file entry, ensured.
ProcParent(f, p, path, n) ==
    IF Parent(path).some THEN EnsureDir(f, p.directories, Parent(path).val, n)
    ELSE Outcome(f, p.directories, <<>>, <<>>, None)

\* From next_with_entry to the await of create_dir_all: the name sanitized,
\* the directory (of a directory entry) or the parent (of a file entry) ensured.
ProcRead(plat, f, p, e) ==
    IF ~EnclosedName(plat, e.name).some
        THEN ProcApply(p, e,
                       Outcome(f, p.directories, <<>>,
                               <<[kind |-> "unsafe", n |-> Len(p.entries) + 1,
                                  name |-> e.name]>>, None),
                       "ReadNextEntry")
    ELSE IF IsDirName(e.name)
        THEN ProcApply(p, e,
                       EnsureDir(f, p.directories, ProcPath(plat, p, e),
                                 Len(p.entries) + 1),
                       "ReadNextEntry")
    ELSE ProcApply(p, e, ProcParent(f, p, ProcPath(plat, p, e), Len(p.entries) + 1),
                   "File::create")

\* File::create(&path).await?
ProcCreated(p, c) ==
    IF ~c.ok THEN Stepped([p EXCEPT !.error = Some(IoError), !.pc = "Failed"], c.fs)
    ELSE Stepped([p EXCEPT !.trace = Append(p.trace, OpCreate(Len(p.entries), c.loc)),
                           !.file = Some(c.loc), !.pc = "copy"], c.fs)
ProcCreate(plat, f, p) == ProcCreated(p, FileCreate(f, ProcPath(plat, p, ProcEntry(p))))

\* tokio::io::copy(..).await? and the comparison of the checksums.
ProcCopied(plat, f, p, e, verdict) ==
    Stepped([p EXCEPT !.trace = Append(p.trace, OpWrite(Len(p.entries), p.file.val, e.content)),
                      !.warnings =
                          IF verdict = "warn"
                              THEN Append(p.warnings,
                                          [kind |-> "crc", n |-> Len(p.entries),
                                           error |-> BadCrc32(EnclosedName(plat, e.name).val,
                                                              Crc32(e.content), e.crc)])
                          ELSE p.warnings,
                      !.error =
                          IF verdict = "fail"
                              THEN Some(BadCrc32(EnclosedName(plat, e.name).val,
                                                 Crc32(e.content), e.crc))
                          ELSE None,
                      !.file = None,
                      !.pc = IF verdict = "fail" THEN "Failed" ELSE "ReadNextEntry"],
            [f EXCEPT ![p.file.val].content = e.content])
ProcCopy(plat, f, p) ==
    ProcCopied(plat, f, p, ProcEntry(p), CrcVerdict(Crc32(ProcEntry(p).content), ProcEntry(p).crc))

\* The stream holds no further entry.
ProcEnd(plat, f, p) == Stepped([p EXCEPT !.pc = AfterEntries(plat), !.cd = 1], f)

\* One record of the central directory.
ProcPatched(p, o) ==
    Stepped([p EXCEPT !.trace = p.trace \o o.ops, !.error = o.error, !.cd = p.cd + 1,
                      !.pc = IF o.error.some THEN "Failed" ELSE "PatchPermissions"],
            o.fs)
ProcPermissions(plat, f, p, e) ==
    IF IsDirName(e.name) THEN Outcome(f, {}, <<>>, <<>>, None)
    ELSE IF ~e.mode.some THEN Outcome(f, {}, <<>>, <<>>, None)
    ELSE IF HasAnyExecutableBit(e.mode.val) = 0 THEN Outcome(f, {}, <<>>, <<>>, None)
    ELSE IF ~EnclosedName(plat, e.name).some THEN Outcome(f, {}, <<>>, <<>>, None)
    ELSE PreserveExec(f, ProcPath(plat, p, e), p.cd)
ProcPatch(plat, f, p) == ProcPatched(p, ProcPermissions(plat, f, p, p.entries[p.cd]))

\* Ok(())
ProcDone(f, p) == Stepped([p EXCEPT !.pc = "Done"], f)

ParInit ==
    /\ platform \in {"unix", "windows"}
    /\ ext = "Zip"
    /\ extractor = "unzip"
    /\ pc = "concurrent"
    /\ entries = <<>>
    /\ cd = 0
    /\ directories = {}
    /\ memo = {}
    /\ warnings = <<>>
    /\ error = None
    /\ trace = <<>>
    /\ sname = <<>>
    /\ sres = None
    /\ writer = None
    /\ size = <<0, 0, 0, 0>>
    /\ pointer_width = 64
    /\ \E other \in OtherTargets :
        /\ procs = <<ProcInit(Target), ProcInit(other)>>
        /\ fs = ParFs(other)

\* The step of call i takes effect: its locals and the filesystem.
Commit(i, s) ==
    /\ procs' = [procs EXCEPT ![i] = s.proc]
    /\ fs' = s.fs
    /\ UNCHANGED <<platform, ext, extractor, pc, entries, cd, directories, memo,
                   warnings, error, trace, sname, sres, writer, size, pointer_width>>

ParRead ==
    \E i \in DOMAIN procs, e \in ParEntries :
        /\ procs[i].pc = "ReadNextEntry"
        /\ Len(procs[i].entries) < MaxParEntries
        /\ Commit(i, ProcRead(platform, fs, procs[i], e))

ParCreate ==
    \E i \in DOMAIN procs :
        /\ procs[i].pc = "File::create"
        /\ Commit(i, ProcCreate(platform, fs, procs[i]))

ParCopy ==
    \E i \in DOMAIN procs :
        /\ procs[i].pc = "copy"
        /\ Commit(i, ProcCopy(platform, fs, procs[i]))

ParEnd ==
    \E i \in DOMAIN procs :
        /\ procs[i].pc = "ReadNextEntry"
        /\ Commit(i, ProcEnd(platform, fs, procs[i]))

ParPatch ==
    \E i \in DOMAIN procs :
        /\ procs[i].pc = "PatchPermissions"
        /\ procs[i].cd <= Len(procs[i].entries)
        /\ Commit(i, ProcPatch(platform, fs, procs[i]))

ParDone ==
    \E i \in DOMAIN procs :
        /\ procs[i].pc = "PatchPermissions"
        /\ procs[i].cd > Len(procs[i].entries)
        /\ Commit(i, ProcDone(fs, procs[i]))

ParNext == ParRead \/ ParCreate \/ ParCopy \/ ParEnd \/ ParPatch \/ ParDone

SpecPar == ParInit /\ [][ParNext]_vars

(***************************************************************************)
(* C1.                                                                     *)
(***************************************************************************)
\* The name read as text: it starts with a separator, or with a drive on Windows.
BeginsWithRootOrDrive(plat, name) ==
    \/ Len(name) >= 2 /\ name[1] = ""
    \/ plat = "windows" /\ name[1] = "c:"

CountIn(name, k, S) == Cardinality({i \in 1..k : name[i] \in S})

\* Some prefix holds more parent-directory segments than normal ones.
ClimbsAbove(name) ==
    \E k \in 1..Len(name) :
        CountIn(name, k, {".."}) > CountIn(name, k, Segments \ {"", ".", ".."})

NoCurDir(comps) == SelectSeq(comps, LAMBDA c : c.k # "CurDir")

\* C1: the sanitizer returns None exactly for a name that holds a NUL byte,
\* begins with a root or drive component, or has a prefix in which the
\* parent-directory components outnumber the normal ones; an accepted name is
\* returned as it is, and current-directory components do not change the outcome.
C1_RejectsIff ==
    pc = "sanitized" =>
        /\ ~sres.some <=> \/ HasNul(sname)
                         \/ BeginsWithRootOrDrive(platform, sname)
                         \/ ClimbsAbove(sname)
        /\ sres.some => sres.val = sname
        /\ HasNul(sname) \/
             (sres.some <=> DepthLoop(NoCurDir(Components(platform, sname)), 1, 0))

\* A name that descends, then climbs above the root, and is rejected for that alone.
C1_Witness ==
    /\ pc = "sanitized"
    /\ ~sres.some
    /\ sname = <<"a", "..", "..", "a">>

(***************************************************************************)
(* What the claims speak of.                                               *)
(***************************************************************************)
IsZip == extractor = "unzip"
IsTar == extractor \in {"untar", "untar_gz", "untar_bz2", "untar_zst", "untar_xz"}

\* Strictly below the target.
Inside(loc) == Len(loc) > Len(Target) /\ SubSeq(loc, 1, Len(Target)) = Target

\* The records of the trace that changed the filesystem at a location.
Effects == {i \in DOMAIN trace : trace[i].op # "create_dir_all"}
EffectsOf(n) == {i \in Effects : trace[i].n = n}
ForwardOps == {"mkdir", "create", "write"}

Seen == 1..Len(entries)
Rejected(n) == ~EnclosedName(platform, entries[n].name).some
ZipFile(n) == ~Rejected(n) /\ ~IsDirName(entries[n].name)
WarningsOf(n) == {i \in DOMAIN warnings : warnings[i].n = n}

\* The name with each parent-directory segment cancelled against the normal
\* segment before it (defined for the names that never climb above the root).
RECURSIVE Cancel(_, _, _)
Cancel(name, i, acc) ==
    IF i > Len(name) THEN acc
    ELSE IF name[i] \in {"", "."} THEN Cancel(name, i + 1, acc)
    ELSE IF name[i] = ".." THEN Cancel(name, i + 1, SubSeq(acc, 1, Len(acc) - 1))
    ELSE Cancel(name, i + 1, Append(acc, name[i]))

Location(name) == Target \o Cancel(name, 1, <<>>)

\* The n-th entry's bytes were written, and where.
WrittenAt(n) == {trace[i].loc : i \in {j \in EffectsOf(n) : trace[j].op = "write"}}

\* The n-th entry is the one the extraction failed on, with an I/O error.
IoFailedAt(n) == pc = "Failed" /\ n = Len(entries) /\ error.val.type = "Io"

(***************************************************************************)
(* C2.                                                                     *)
(***************************************************************************)
OutsideOf(f) == {loc \in DOMAIN f : ~Inside(loc)}

\* C2: in a zip extraction every directory made, file created or written and
\* mode changed lies inside the target, what is outside the target stays as
\* it was, and nothing at all is done for an entry whose name the sanitizer
\* rejects.
C2_StaysInsideTarget ==
    IsZip =>
        /\ \A i \in Effects : Inside(trace[i].loc)
        /\ OutsideOf(fs) = OutsideOf(InitFs)
        /\ \A loc \in OutsideOf(fs) : fs[loc] = InitFs[loc]
        /\ \A n \in Seen : Rejected(n) => EffectsOf(n) = {}

\* ../b with execute bits, then a/b: the extraction is done, a/b is written.
C2_Witness ==
    /\ IsZip /\ platform = "unix" /\ pc = "Done"
    /\ Len(entries) = 2
    /\ entries[1].name = <<"..", "b">> /\ entries[1].mode = Some(Mode754)
    /\ entries[2].name = <<"a", "b">>
    /\ IsNode(fs, <<"t", "a", "b">>, "file")

(***************************************************************************)
(* C3.                                                                     *)
(***************************************************************************)
\* C3: a zip file entry whose name the sanitizer accepts, a/../b among them,
\* has its bytes written once, at the target followed by the name with every
\* parent-directory component cancelled against the normal component before
\* it, unless an I/O error ends the extraction at that entry.
C3_WrittenAtCancelledName ==
    IsZip =>
        \A n \in Seen :
            ZipFile(n) =>
                /\ WrittenAt(n) \subseteq {Location(entries[n].name)}
                /\ WrittenAt(n) = {} => IoFailedAt(n)
                /\ (n = Len(entries) /\ pc = "ReadNextEntry") =>
                       /\ IsNode(fs, Location(entries[n].name), "file")
                       /\ fs[Location(entries[n].name)].content = entries[n].content

\* a/../b was just written: the file is target/b, and a was made on the way.
C3_Witness ==
    /\ IsZip /\ pc = "ReadNextEntry"
    /\ Len(entries) = 1
    /\ entries[1].name = <<"a", "..", "b">>
    /\ ~Rejected(1)
    /\ WrittenAt(1) = {<<"t", "b">>}
    /\ fs[<<"t", "b">>].content = "hi"

(***************************************************************************)
(* C4, C5.                                                                 *)
(***************************************************************************)
\* The n-th entry's bytes were copied and their checksum is not the declared one.
Mismatch(n) ==
    ZipFile(n) /\ WrittenAt(n) # {} /\ Crc32(entries[n].content) # entries[n].crc

LastEffect == trace[Len(trace)]

\* C4: a zip file entry copied with a checksum that differs from a non-zero
\* declared one fails the extraction with BadCrc32 of the entry's relative
\* path, the computed and the expected value; it is the last entry read, its
\* write is the last thing done, and the permission pass never starts.
C4_NonZeroMismatchIsFatal ==
    IsZip =>
        \A n \in Seen :
            (Mismatch(n) /\ entries[n].crc # 0) =>
                /\ pc = "Failed"
                /\ error = Some(BadCrc32(entries[n].name, Crc32(entries[n].content),
                                         entries[n].crc))
                /\ n = Len(entries)
                /\ LastEffect.op = "write" /\ LastEffect.n = n
                /\ cd = 0
                /\ ~ENABLED Next

\* An entry is extracted, then one with a wrong non-zero checksum is copied.
C4_Witness ==
    /\ IsZip /\ pc = "Failed"
    /\ Len(entries) = 2
    /\ WrittenAt(1) # {}
    /\ Mismatch(2) /\ entries[2].crc = WrongCrc
    /\ error.val.type = "BadCrc32"

\* C5: a zip file entry copied with a checksum that differs from a declared
\* checksum of 0 gets exactly one warning, which tells the mismatch, and is
\* no error: the forward pass can fail after it only by the stream failing,
\* and no BadCrc32 error ever names a declared checksum of 0.
C5_ZeroMismatchIsWarning ==
    IsZip =>
        /\ \A n \in Seen :
            (Mismatch(n) /\ entries[n].crc = 0) =>
                /\ Cardinality(WarningsOf(n)) = 1
                /\ \A i \in WarningsOf(n) :
                       /\ warnings[i].kind = "crc"
                       /\ warnings[i].error.path = entries[n].name
                       /\ warnings[i].error.expected = 0
                /\ (n = Len(entries) /\ pc = "Failed" /\ cd = 0) =>
                       error.val.type = "AsyncZip"
        /\ (error.some /\ error.val.type = "BadCrc32") => error.val.expected # 0
        /\ \A i \in DOMAIN warnings :
               warnings[i].kind = "crc" =>
                   Mismatch(warnings[i].n) /\ entries[warnings[i].n].crc = 0

\* A zero-checksum mismatch, another entry after it, and the extraction done
\* with that one warning.
C5_Witness ==
    /\ IsZip /\ pc = "Done" /\ ~error.some
    /\ Len(entries) = 2
    /\ Mismatch(1) /\ entries[1].crc = 0
    /\ WrittenAt(2) # {} /\ ~Mismatch(2)
    /\ Len(warnings) = 1

(***************************************************************************)
(* C6.                                                                     *)
(***************************************************************************)
\* C6: a zip entry the sanitizer rejects gets exactly one warning and nothing
\* else; the forward pass can fail after it only by the stream failing, and
\* every file entry with a safe name after it is written at its
\* place unless an I/O error ends the extraction at that entry.
C6_RejectedEntryIsSkipped ==
    IsZip =>
        \A n \in Seen :
            Rejected(n) =>
                /\ Cardinality(WarningsOf(n)) = 1
                /\ \A i \in WarningsOf(n) :
                       warnings[i].kind = "unsafe" /\ warnings[i].name = entries[n].name
                /\ EffectsOf(n) = {}
                /\ (n = Len(entries) /\ pc = "Failed" /\ cd = 0) =>
                       error.val.type = "AsyncZip"
                /\ \A m \in Seen :
                       (m > n /\ ZipFile(m)) =>
                           \/ WrittenAt(m) = {Location(entries[m].name)}
                           \/ IoFailedAt(m)

\* ../b is skipped, a/b after it is extracted and made executable, and the
\* file b beside the target is as it was.
C6_Witness ==
    /\ IsZip /\ platform = "unix" /\ pc = "Done" /\ ~error.some
    /\ Len(entries) = 2
    /\ entries[1].name = <<"..", "b">>
    /\ entries[2].name = <<"a", "b">> /\ entries[2].mode = Some(Mode754)
    /\ fs[<<"t", "a", "b">>].content = "hi"
    /\ fs[<<"t", "a", "b">>].mode = Mode755
    /\ fs[<<"b">>] = InitFs[<<"b">>]
    /\ Len(warnings) = 1

(***************************************************************************)
(* C7.                                                                     *)
(***************************************************************************)
\* The n-th entry declared some execute bit.
Declared(n) ==
    IF IsZip THEN entries[n].mode.some /\ BitAnd(entries[n].mode.val, ExecMask) # 0
    ELSE BitAnd(entries[n].mode, ExecMask) # 0

ModeAt(loc) == fs[Inode(fs, loc)].mode
Executable(loc) == loc \in DOMAIN fs /\ BitAnd(ModeAt(loc), ExecMask) # 0

\* No other entry did anything at the location, nor linked to it.
Sole(n, loc) ==
    \A i \in Effects :
        (trace[i].loc = loc \/ (trace[i].op = "hard_link" /\ trace[i].to = loc)) =>
            trace[i].n = n

Succeeded == pc = "Done" /\ platform = "unix" /\ (IsZip \/ IsTar)

\* C7 as claimed: after a successful extraction on Unix every written file is
\* executable exactly when its entry declared an execute bit.
C7_AsClaimed ==
    Succeeded =>
        \A n \in Seen : \A loc \in WrittenAt(n) : Executable(loc) <=> Declared(n)

\* C7, amended: after a successful extraction on Unix a written file that no
\* other entry of the archive names (at the same location or as a hard link
\* to it) has the default mode with all execute bits added when its entry
\* declared an execute bit, and the default mode when it declared none.
C7_ExecIffDeclaredWhenSole ==
    Succeeded =>
        \A n \in Seen : \A loc \in WrittenAt(n) :
            Sole(n, loc) =>
                /\ IsNode(fs, loc, "file")
                /\ Executable(loc) <=> Declared(n)
                /\ ModeAt(loc) = IF Declared(n) THEN BitOr(DefaultFileMode, ExecMask)
                                 ELSE DefaultFileMode

\* Two files of one zip, each named once: a/b declared 0o754, b declared 0o644.
C7_Witness ==
    /\ Succeeded /\ IsZip
    /\ Len(entries) = 2
    /\ entries[1].name = <<"a", "b">> /\ entries[1].mode = Some(Mode754)
    /\ entries[2].name = <<"b">> /\ entries[2].mode = Some(Mode644)
    /\ Sole(1, <<"t", "a", "b">>) /\ Sole(2, <<"t", "b">>)
    /\ Executable(<<"t", "a", "b">>)
    /\ ~Executable(<<"t", "b">>)

(***************************************************************************)
(* C8.                                                                     *)
(***************************************************************************)
\* The permission bits set in a mode, the lowest being bit 0.
Bits(mode) == {k \in 0..11 : (mode \div (2 ^ k)) % 2 = 1}
ExecBits == {0, 3, 6}

Chmods == {i \in Effects : trace[i].op = "set_permissions"}

\* C8: every mode change of an extraction keeps each bit that was set, adds
\* execute bits only, leaves all three execute bits set, and is made only on
\* a file that lacked one of them; the change is the one the file then has.
C8_PatchIsAdditive ==
    /\ \A i \in Chmods :
        /\ Bits(trace[i].old) \subseteq Bits(trace[i].new)
        /\ Bits(trace[i].new) \ Bits(trace[i].old) \subseteq ExecBits
        /\ ExecBits \subseteq Bits(trace[i].new)
        /\ ~(ExecBits \subseteq Bits(trace[i].old))
    /\ (trace # <<>> /\ LastEffect.op = "set_permissions") =>
           fs[LastEffect.loc].mode = LastEffect.new

\* Two records of the central directory name b with execute bits: the first
\* changes the mode, the second finds all execute bits set and changes nothing.
C8_Witness ==
    /\ IsZip /\ pc = "Done"
    /\ Len(entries) = 2
    /\ entries[1].name = <<"b">> /\ entries[1].mode = Some(Mode754)
    /\ entries[2].name = <<"b">> /\ entries[2].mode = Some(Mode754)
    /\ Cardinality(Chmods) = 1
    /\ \A i \in Chmods : trace[i].old = Mode644 /\ trace[i].new = Mode755

(***************************************************************************)
(* C9.                                                                     *)
(***************************************************************************)
C9_Order ==
    IsZip =>
        /\ Chmods # {} => pc \in {"PatchPermissions", "Done", "Failed"} /\ cd >= 1
        /\ \A i \in Effects : \A j \in Effects :
               i < j =>
                   /\ trace[i].op = "set_permissions" => trace[j].op = "set_permissions"
                   /\ trace[i].op = trace[j].op => trace[i].n <= trace[j].n
                   /\ (trace[i].op \in ForwardOps /\ trace[j].op \in ForwardOps) =>
                          trace[i].n <= trace[j].n
        /\ pc = "PatchPermissions" => platform = "unix" /\ cd \in 1..(Len(entries) + 1)
        /\ platform # "unix" => Chmods = {}
        /\ (pc = "Done" /\ platform = "unix") => cd = Len(entries) + 1
        /\ \A i \in Chmods : trace[i].n < cd

C9_Step ==
    IsZip =>
        /\ pc = "ReadNextEntry" =>
               /\ pc' \in {"ReadNextEntry", "Failed",
                           IF platform = "unix" THEN "PatchPermissions" ELSE "Done"}
               /\ Len(entries') \in {Len(entries), Len(entries) + 1}
               /\ SubSeq(entries', 1, Len(entries)) = entries
               /\ \A i \in (DOMAIN trace') \ (DOMAIN trace) :
                      trace'[i].op \in ForwardOps \cup {"create_dir_all"}
                      /\ trace'[i].n = Len(entries')
        /\ pc = "PatchPermissions" =>
               /\ pc' \in {"PatchPermissions", "Done", "Failed"}
               /\ entries' = entries
               /\ cd' \in {cd, cd + 1}
               /\ \A i \in (DOMAIN trace') \ (DOMAIN trace) :
                      trace'[i].op = "set_permissions" /\ trace'[i].n = cd
               /\ \A loc \in DOMAIN fs : fs'[loc].content = fs[loc].content
               /\ DOMAIN fs' = DOMAIN fs
        /\ pc \in {"Done", "Failed"} => UNCHANGED vars

\* C9: a zip extraction reads its entries one after another in stream order,
\* then, on Unix only, visits the central directory's records in order, then is
\* done; no mode is changed before the last entry is read and nothing is
\* created or written once the pass over the central directory has begun.
C9_StateOrder == [](C9_Order) /\ [][C9_Step]_vars

\* Both phases have acted: two files were written, then the second one's mode
\* was changed, and the extraction is done.
C9_Witness ==
    /\ IsZip /\ platform = "unix" /\ pc = "Done"
    /\ Len(entries) = 2
    /\ WrittenAt(1) # {} /\ WrittenAt(2) # {}
    /\ Cardinality(Chmods) = 1
    /\ LastEffect.op = "set_permissions" /\ LastEffect.n = 2

(***************************************************************************)
(* C10.                                                                    *)
(***************************************************************************)
\* C10 as claimed: in a tar extraction on Windows every symlink entry gets
\* exactly one warning and nothing is done for it, and the extraction does not
\* fail on it; elsewhere a symlink entry gets no warning.
C10_AsClaimed ==
    IsTar =>
        \A n \in Seen :
            entries[n].type = "symlink" =>
                IF platform = "windows"
                    THEN /\ EffectsOf(n) = {}
                         /\ Cardinality(WarningsOf(n)) = 1
                    ELSE WarningsOf(n) = {}

(***************************************************************************)
(* C11.                                                                    *)
(***************************************************************************)
MkdirCalls == {i \in DOMAIN trace : trace[i].op = "create_dir_all"}
MkdirCallsOf(n) == {i \in MkdirCalls : trace[i].n = n}

Safe == {n \in Seen : ~Rejected(n)}

\* The directory of the n-th entry as unzip records it: the joined path of a
\* directory entry, the parent of the joined path of a file entry.
DirKey(n) ==
    LET path == Join(platform, Target, entries[n].name)
    IN  IF IsDirName(entries[n].name) THEN path ELSE Parent(path).val

\* The K of the claim: the distinct directories of the entries read, as the
\* DirectorySet tells them apart.
DistinctDirs == {DirKey(n) : n \in Safe}

TarDest(n) ==
    Target \o SelectSeq(entries[n].name, LAMBDA x : x \notin {"", ".", ".."})

\* The n-th entry was written, or skipped on its own.
Handled(n) ==
    IF IsZip THEN
        IF Rejected(n) THEN Cardinality(WarningsOf(n)) = 1 /\ EffectsOf(n) = {}
        ELSE IF IsDirName(entries[n].name)
            THEN IsNode(fs, Location(entries[n].name), "dir")
        ELSE WrittenAt(n) = {Location(entries[n].name)}
    ELSE
        IF platform = "windows" /\ entries[n].type = "symlink"
            THEN Cardinality(WarningsOf(n)) = 1 /\ EffectsOf(n) = {}
        ELSE IF \E i \in 1..Len(entries[n].name) : entries[n].name[i] = ".."
            THEN EffectsOf(n) = {}
        ELSE IF entries[n].type = "dir" THEN IsNode(fs, TarDest(n), "dir")
        ELSE \E i \in EffectsOf(n) :
                 /\ trace[i].loc = TarDest(n)
                 /\ trace[i].op = CASE entries[n].type = "file" -> "write"
                                    [] entries[n].type = "symlink" -> "symlink"
                                    [] OTHER -> "hard_link"

\* The locations the step did something at.
Touched == {trace'[i].loc : i \in {j \in (DOMAIN trace') \ (DOMAIN trace) :
                                        trace'[j].op # "create_dir_all"}}

C12_Result ==
    /\ error.some <=> pc = "Failed"
    /\ pc = "Done" => \A n \in Seen : Handled(n)
    /\ (IsZip /\ pc = "Failed" /\ cd = 0) => Chmods = {}
    /\ pc \in {"ReadNextEntry", "TarEntries", "PatchPermissions"} =>
           \A n \in Seen : Handled(n)

C12_Step ==
    /\ pc \in {"Done", "Failed"} => UNCHANGED vars
    /\ (pc = "ReadNextEntry" /\ pc' = "Failed") => cd' = 0
    /\ pc' = "Failed" =>
           /\ Len(entries') <= Len(entries) + 1
           /\ SubSeq(entries', 1, Len(entries)) = entries
           /\ SubSeq(trace', 1, Len(trace)) = trace
           /\ DOMAIN fs \subseteq DOMAIN fs'
           /\ \A loc \in (DOMAIN fs) \ Touched : fs'[loc] = fs[loc]

\* C12: an extraction ends with an error exactly when it failed; it is done
\* only when every entry read was written or skipped on its own; the step
\* that fails it is its last, reads at most the entry it fails on, never
\* leads a zip extraction from its entries into the permission pass, and
\* removes or changes nothing but what the failing entry itself touched.
C12_NoPartialSuccess == [](C12_Result) /\ [][C12_Step]_vars

\* a/b was written, then the filesystem failed the second entry: the
\* extraction has failed with the first file in place.
C12_Witness ==
    /\ IsZip /\ pc = "Failed" /\ cd = 0
    /\ error = Some(IoError)
    /\ Len(entries) = 2
    /\ WrittenAt(1) = {<<"t", "a", "b">>}
    /\ WrittenAt(2) = {}
    /\ fs[<<"t", "a", "b">>].content = "hi"

(***************************************************************************)
(* C13.                                                                    *)
(***************************************************************************)
\* The routing the claim tells, discriminator by discriminator.
Routing ==
    [e \in {"Zip"} |-> "unzip"] @@ [e \in {"Tar"} |-> "untar"]
    @@ [e \in {"Tgz", "TarGz"} |-> "untar_gz"]
    @@ [e \in {"Tbz", "TarBz2"} |-> "untar_bz2"]
    @@ [e \in {"TarZst"} |-> "untar_zst"]
    @@ [e \in {"Txz", "TarXz", "Tlz", "TarLz", "TarLzma"} |-> "untar_xz"]

C13_Called ==
    /\ pc = "archive" <=> extractor = "none"
    /\ pc = "archive" => ext \in DOMAIN Routing /\ trace = <<>> /\ entries = <<>>
                         /\ fs = InitFs /\ ~error.some
    /\ pc \in {"ReadNextEntry", "PatchPermissions"} => IsZip
    /\ pc = "TarEntries" => IsTar
    /\ pc \in {"Done", "Failed"} => IsZip \/ IsTar
    /\ IsZip => memo = {}
    /\ IsTar => directories = {} /\ cd = 0

C13_Step ==
    /\ pc = "archive" =>
           /\ extractor' = Routing[ext]
           /\ pc' = IF Routing[ext] = "unzip" THEN "ReadNextEntry" ELSE "TarEntries"
           /\ UNCHANGED <<platform, fs, entries, trace, warnings, error>>
    /\ pc # "archive" => extractor' = extractor

\* C13: the dispatcher calls one extractor, the one the claim's table gives
\* for the format discriminator whatever the platform, before anything else
\* is done; only that extractor's steps follow, and the call ends done or
\* failed as that extractor does, with its error.
C13_RoutesToOneExtractor == [](C13_Called) /\ [][C13_Step]_vars

\* The xz extractor was called and has unpacked an entry.
C13_Witness ==
    /\ extractor = "untar_xz" /\ ext = "moved"
    /\ pc = "Done"
    /\ Len(entries) = 1 /\ EffectsOf(1) # {}

(***************************************************************************)
(* C14.                                                                    *)
(***************************************************************************)
\* One step of a call that runs alone on the archive es.
SoloStep(plat, f, p, es) ==
    CASE p.pc = "ReadNextEntry" ->
            IF Len(p.entries) < Len(es) THEN ProcRead(plat, f, p, es[Len(p.entries) + 1])
            ELSE ProcEnd(plat, f, p)
      [] p.pc = "File::create" -> ProcCreate(plat, f, p)
      [] p.pc = "copy" -> ProcCopy(plat, f, p)
      [] p.pc = "PatchPermissions" ->
            IF p.cd <= Len(p.entries) THEN ProcPatch(plat, f, p) ELSE ProcDone(f, p)
      [] OTHER -> [proc |-> p, fs |-> f]

\* The call after k steps alone.
RECURSIVE Replay(_, _, _, _, _)
Replay(plat, f, p, es, k) ==
    IF k = 0 THEN p
    ELSE Replay(plat, SoloStep(plat, f, p, es).fs, SoloStep(plat, f, p, es).proc, es, k - 1)

\* Call i run alone from the same start, on the entries it has read, as far
\* as it has come.
Alone(i) ==
    Replay(platform, ParFs(procs[2].target), ProcInit(procs[i].target),
           procs[i].entries, procs[i].steps)

\* The same directory-creation calls, writes and result: the records of what
\* the call did, its DirectorySet, its warnings, its error and where it is.
SameAsAlone(i) ==
    /\ procs[i].trace = Alone(i).trace
    /\ procs[i].directories = Alone(i).directories
    /\ procs[i].warnings = Alone(i).warnings
    /\ procs[i].error = Alone(i).error
    /\ procs[i].pc = Alone(i).pc

IsBelow(a, b) == Len(a) >= Len(b) /\ SubSeq(a, 1, Len(b)) = b

\* Neither target lies inside the other.
Apart == ~IsBelow(procs[1].target, procs[2].target) /\ ~IsBelow(procs[2].target, procs[1].target)

\* A call that has not begun holds an empty DirectorySet; the targets differ.
C14_Starts ==
    /\ procs[1].target # procs[2].target
    /\ \A i \in DOMAIN procs :
        procs[i].steps = 0 => procs[i].directories = {} /\ procs[i].trace = <<>>

\* A step is one call's: the other call's locals stay as they are.
C14_Step ==
    \E i \in DOMAIN procs :
        /\ procs'[i].target = procs[i].target
        /\ \A j \in DOMAIN procs \ {i} : procs'[j] = procs[j]

\* C14 as claimed: in every interleaving of two extractions into different
\* targets each call makes the directory-creation calls and writes and has
\* the result it has when it runs alone.
C14_AsClaimed == C14_Starts /\ \A i \in DOMAIN procs : SameAsAlone(i)

\* C14, amended: every call starts with its own empty DirectorySet and its
\* own target and a step changes the locals of one call only; in every
\* interleaving of two extractions into targets neither of which lies inside
\* the other, each call makes the directory-creation calls and writes and has
\* the result it has when it runs alone.
C14_IndependentWhenApart ==
    /\ [](C14_Starts /\ (Apart => \A i \in DOMAIN procs : SameAsAlone(i)))
    /\ [][C14_Step]_vars

\* Both calls, their targets apart, are in the middle of their second entry,
\* the first having made a directory and the second written a file.
C14_Witness ==
    /\ Apart
    /\ procs[1].pc = "copy" /\ Len(procs[1].entries) = 2
    /\ procs[2].pc = "File::create" /\ Len(procs[2].entries) = 2
    /\ \E k \in DOMAIN procs[1].trace : procs[1].trace[k].op = "create_dir_all"
    /\ \E k \in DOMAIN procs[2].trace : procs[2].trace[k].op = "write"

(***************************************************************************)
(* C15.                                                                    *)
(***************************************************************************)
TarExtractors == {"untar", "untar_gz", "untar_bz2", "untar_zst", "untar_xz"}

\* C15: whichever tar extractor was called, its archive neither preserves
\* modification times nor permissions nor allows external symlinks, its
\* entries are read by untar_in, no stored mode or time is ever stamped on a
\* file, and every file it wrote has the default mode, with the execute bits
\* added or not.
C15_TarFixedConfiguration ==
    IsTar =>
        /\ extractor \in TarExtractors
        /\ ArchiveBuilder(extractor) = TarConfig(FALSE, FALSE, FALSE)
        /\ pc \in {"TarEntries", "Done", "Failed"}
        /\ \A i \in Effects : trace[i].op \notin {"stored_mode", "stored_mtime"}
        /\ \A n \in Seen : \A loc \in WrittenAt(n) :
               IsNode(fs, loc, "file") =>
                   fs[loc].mode \in {DefaultFileMode, BitOr(DefaultFileMode, ExecMask)}

\* The gzip extractor unpacked a file stored with 0o754: it has 0o755.
C15_Witness ==
    /\ extractor = "untar_gz" /\ platform = "unix" /\ pc = "Done"
    /\ Len(entries) = 1
    /\ entries[1] = TarEntry(<<"b">>, "file", Mode754)
    /\ WrittenAt(1) = {<<"t", "b">>}
    /\ fs[<<"t", "b">>].mode = Mode755

(***************************************************************************)
(* C16.                                                                    *)
(***************************************************************************)
ChmodsOf(n) == {i \in Chmods : trace[i].n = n}

\* The records that tell the unpacking of the n-th entry wrote a file or
\* made a hard link.
UnpackedAt(n) == {i \in EffectsOf(n) : trace[i].op \in {"write", "hard_link"}}

C16_Fix ==
    IsTar =>
        /\ \A i \in Chmods :
               LET n == trace[i].n
               IN  /\ platform = "unix"
                   /\ entries[n].type \in {"file", "hardlink"}
                   /\ Declared(n)
                   /\ \E j \in UnpackedAt(n) :
                          /\ j < i
                          /\ trace[i].loc = IF trace[j].op = "write" THEN trace[j].loc
                                            ELSE trace[j].to
                   /\ \A j \in EffectsOf(n) : j <= i
        /\ \A n \in Seen :
               /\ Cardinality(ChmodsOf(n)) <= 1
               /\ (platform = "unix" /\ entries[n].type = "file" /\ Declared(n)
                      /\ UnpackedAt(n) # {}) => ChmodsOf(n) # {}
        /\ \A i \in Effects : \A j \in Effects : i < j => trace[i].n <= trace[j].n

C16_Step ==
    pc = "TarEntries" =>
        \A i \in (DOMAIN trace') \ (DOMAIN trace) :
            Len(entries') = Len(entries) + 1 /\ trace'[i].n = Len(entries')

\* C16: in a tar extraction a mode is changed only on Unix, for a file or
\* hard link entry whose header mode has an execute bit and whose unpacking
\* wrote a path, on what that path names; the change is made in the step that
\* unpacks the entry, after its unpacking and before anything of the next
\* entry, at most once, and always for a new file that declared an execute
\* bit; directories, symlinks and entries not written are never changed.
C16_FixFollowsUnpack == [](C16_Fix) /\ [][C16_Step]_vars

\* The file b with 0o754 is unpacked and made executable, then a symlink is
\* unpacked and left alone.
C16_Witness ==
    /\ IsTar /\ platform = "unix"
    /\ Len(entries) = 2
    /\ entries[1] = TarEntry(<<"b">>, "file", Mode754)
    /\ entries[2].type = "symlink" /\ entries[2].name = <<"a">>
    /\ Len(trace) = 4
    /\ trace[3] = OpChmod(1, <<"t", "b">>, Mode644, Mode755)
    /\ trace[4].op = "symlink" /\ trace[4].n = 2

(***************************************************************************)
(* C17.                                                                    *)
(***************************************************************************)
\* The directory the n-th entry's directory path resolves to.
ResolvedDir(n) ==
    IF IsDirName(entries[n].name) THEN Location(entries[n].name)
    ELSE Up(Location(entries[n].name))

CallsFor(path) == {i \in MkdirCalls : trace[i].path = path}

Created(path) ==
    Resolve(fs, path).some /\ IsNode(fs, Resolve(fs, path).val, "dir")

\* C17 as claimed: every path of the DirectorySet names a directory that was
\* created, and two entries whose directories resolve to the same directory
\* trigger one directory creation between them.
C17_AsClaimed ==
    IsZip =>
        /\ pc # "Failed" => \A p \in directories : Created(p)
        /\ \A n \in Safe : \A m \in Safe :
               (n # m /\ ResolvedDir(n) = ResolvedDir(m)) =>
                   Cardinality(MkdirCallsOf(n) \cup MkdirCallsOf(m)) <= 1

C17_Keys ==
    IsZip =>
        /\ directories = DistinctDirs
        /\ \A p \in directories : Cardinality(CallsFor(p)) = 1
        /\ pc # "Failed" => \A p \in directories : Created(p)
        /\ \A n \in Safe : \A m \in Safe :
               (n # m /\ DirKey(n) = DirKey(m)) =>
                   Cardinality(MkdirCallsOf(n) \cup MkdirCallsOf(m)) <= 1
        /\ \A n \in Safe :
               Created(DirKey(n)) => Resolve(fs, DirKey(n)).val = ResolvedDir(n)

\* C17, amended: the DirectorySet is keyed by the directory path as joined
\* from the target and the entry's name, not resolved: it only grows, it
\* holds exactly the joined directory paths of the entries read, each with
\* one creation call, every path in it names an existing directory unless
\* the extraction failed, and two entries with the same joined directory path
\* trigger one creation between them.
C17_KeyedByJoinedPath == [](C17_Keys) /\ [][directories \subseteq directories']_vars

\* The parents of b and a/../b are one directory under two keys: two calls.
C17_Witness ==
    /\ IsZip /\ pc = "ReadNextEntry"
    /\ Len(entries) = 2
    /\ entries[1].name = <<"b">>
    /\ entries[2].name = <<"a", "..", "b">>
    /\ ResolvedDir(1) = ResolvedDir(2)
    /\ directories = {<<"t">>, <<"t", "a", "..">>}
    /\ Cardinality(MkdirCalls) = 2
    /\ WrittenAt(2) = {<<"t", "b">>}

(***************************************************************************)
(* C18.                                                                    *)
(***************************************************************************)
\* The central directory's n-th record is one the pass skips.
Skipped(n) ==
    \/ IsDirName(entries[n].name)
    \/ ~entries[n].mode.some
    \/ BitAnd(entries[n].mode.val, ExecMask) = 0
    \/ Rejected(n)

C18_Changed ==
    IsZip =>
        \A i \in Chmods :
            /\ ~Skipped(trace[i].n)
            /\ trace[i].loc = Location(entries[trace[i].n].name)
            /\ trace[i].loc \in WrittenAt(trace[i].n)
            /\ IsNode(fs, trace[i].loc, "file")

C18_Step ==
    (IsZip /\ pc = "PatchPermissions" /\ cd' = cd + 1) =>
        IF Skipped(cd)
            THEN fs' = fs /\ trace' = trace /\ ~error'.some /\ pc' = "PatchPermissions"
        ELSE /\ \A loc \in DOMAIN fs :
                    loc # Location(entries[cd].name) => fs'[loc] = fs[loc]
             /\ fs'[Location(entries[cd].name)] =
                    [fs[Location(entries[cd].name)] EXCEPT
                        !.mode = BitOr(fs[Location(entries[cd].name)].mode, ExecMask)]
             /\ Len(trace') <= Len(trace) + 1

\* C18: in the zip permission pass a mode is changed only for a record that
\* is no directory, carries permission bits with an execute bit and has a
\* name the sanitizer accepts, and only on the file the forward pass wrote for
\* that entry, which gets the execute bits added and keeps its content; a
\* record of any other kind is passed over with no error, the filesystem and
\* the trace as they were.
C18_PermissionPassConditions == [](C18_Changed) /\ [][C18_Step]_vars

\* The pass went over a directory record with execute bits and a file record
\* with 0o754: only the file's mode was changed.
C18_Witness ==
    /\ IsZip /\ platform = "unix" /\ pc = "Done"
    /\ Len(entries) = 2
    /\ entries[1] = ZipEntry(<<"a", "">>, Some(Mode755), "", 0)
    /\ entries[2].name = <<"a", "b">> /\ entries[2].mode = Some(Mode754)
    /\ Cardinality(Chmods) = 1
    /\ LastEffect = OpChmod(2, <<"t", "a", "b">>, Mode644, Mode755)

(***************************************************************************)
(* C20.                                                                    *)
(***************************************************************************)
\* What is left of the call: the entries not yet read, then the records of
\* the central directory not yet visited.
Remaining ==
    CASE pc = "archive" -> 2 * MaxEntries + 3
      [] pc = "ReadNextEntry" -> (MaxEntries - Len(entries)) + MaxEntries + 2
      [] pc = "PatchPermissions" -> (Len(entries) + 1 - cd) + 1
      [] pc = "TarEntries" -> (MaxEntries - Len(entries)) + 1
      [] OTHER -> 0

C20_Ends ==
    /\ pc \in {"archive", "ReadNextEntry", "PatchPermissions", "TarEntries",
                "Done", "Failed"}
    /\ pc = "Done" => ~error.some
    /\ pc = "Failed" => error.some
    /\ Len(entries) <= MaxEntries
    /\ \A i \in DOMAIN trace : trace[i].n \in Seen
    /\ \A i \in DOMAIN warnings : warnings[i].n \in Seen

C20_Step ==
    /\ Remaining' < Remaining
    /\ SubSeq(entries', 1, Len(entries)) = entries
    /\ Len(entries') \in {Len(entries), Len(entries) + 1}
    /\ (pc \in {"ReadNextEntry", "TarEntries"} /\ pc' = pc) =>
           Len(entries') = Len(entries) + 1
    /\ pc \in {"ReadNextEntry", "TarEntries"} =>
           /\ \A i \in (DOMAIN trace') \ (DOMAIN trace) : trace'[i].n = Len(entries) + 1
           /\ \A i \in (DOMAIN warnings') \ (DOMAIN warnings) :
                  warnings'[i].n = Len(entries) + 1
    /\ pc \notin {"ReadNextEntry", "TarEntries"} => entries' = entries
    /\ pc = "PatchPermissions" => cd' \in {cd, cd + 1}

\* C20: an extraction of a stream of at most MaxEntries entries ends, in Done
\* with no error or in Failed with one; every step lessens what is left of
\* the call, an iteration of the entry loop that goes on reads exactly the
\* next entry, whatever is done or warned in an iteration is for the entry it
\* read, and the entries already read are never read again nor changed.
C20_Terminates ==
    /\ <>(pc \in {"Done", "Failed"})
    /\ [](C20_Ends)
    /\ [][C20_Step]_vars

\* A zip of two entries was read to its end, its central directory visited,
\* and the extraction is done.
C20_Witness ==
    /\ IsZip /\ platform = "unix" /\ pc = "Done"
    /\ Len(entries) = MaxEntries
    /\ cd = Len(entries) + 1
    /\ \A n \in Seen : EffectsOf(n) # {}

(***************************************************************************)
(* C19.                                                                    *)
(***************************************************************************)
\* The declared size is usable: it is a value of the build's usize.
Usable == pointer_width = 64 \/ (size[1] = 0 /\ size[2] = 0)

\* The declared size is below 2^20, and then its value.
BelowMiB == size[1] = 0 /\ size[2] = 0 /\ size[3] < 16
SizeValue == size[3] * Limb + size[4]

\* The writer's capacity is the lesser of the declared size and 1 MiB.
IsMinOfSizeAndMiB ==
    IF BelowMiB THEN writer.val.capacity = SizeValue
    ELSE writer.val.capacity = 1024 * 1024

\* C19 as claimed: the writer made for a zip file entry has the capacity
\* min(declared size, 1 MiB) when the declared size is usable and 128 KiB
\* otherwise, and never more than 1 MiB.
C19_AsClaimed ==
    writer.some =>
        /\ Usable => IsMinOfSizeAndMiB
        /\ ~Usable => writer.val.capacity = DEFAULT_BUF_SIZE
        /\ writer.val.capacity <= 1024 * 1024

\* C19, amended: the writer made for a zip file entry has the capacity
\* min(declared size, 1 MiB) when the declared size is usable and the
\* capacity BufWriter::new gives (8 KiB) otherwise, never more than 1 MiB;
\* the size and the build stay what they were.
C19_WriterCapacity ==
    /\ [](writer.some =>
            /\ Usable => IsMinOfSizeAndMiB
            /\ ~Usable => writer.val.capacity = 8 * 1024
            /\ writer.val.capacity <= 1024 * 1024)
    /\ [][/\ ~writer.some /\ writer'.some
          /\ size' = size /\ pointer_width' = pointer_width]_vars

\* A writer was made on a 32-bit build for an entry that declares 2^32 bytes
\* or more.
C19_Witness ==
    /\ writer.some
    /\ pointer_width = 32
    /\ ~Usable
    /\ writer.val.capacity = BufWriterNew

====
